---- MODULE Spec2Model ----
(***************************************************************************)
(* Model of the serial_lcd driver: the command encoder of lcd.go (every   *)
(* operation builds one byte slice and hands it to the sink in a single   *)
(* Write), the glyph compiler MakeChar, the reference driver program's    *)
(* two goroutines, and the HTTP set handler of lcd_web.                   *)
(***************************************************************************)
EXTENDS Integers, Sequences, FiniteSets, TLC

VARIABLES
    wire,      \* bytes the sink has accepted so far, in order
    pc,        \* per caller: "idle" or "write" (inside an operation, before its Write)
    cur,       \* per caller: the operation in progress or last completed
    pend,      \* per caller: the Write calls the operation still has to make
    handed,    \* per caller: the buffers the operation has passed to the sink's Write
    sinkRes,   \* per caller: (n, err) the sink returned to the operation's last Write
    res,       \* per caller: what the operation returned to its caller
    hist,      \* operations in the order they were invoked
    call,      \* per caller: the position in hist of its operation
    owner,     \* for each byte of wire, the position in hist of the operation it came from
    overlap,   \* whether an operation was invoked while another caller was inside one
    spawned,   \* whether "go loop(lcd)" has run
    failed,    \* whether some Write has failed
    budget,    \* operations that may still be invoked
    lines,     \* MakeChar's input: 8 rows of characters
    charDef,   \* MakeChar's output
    compiled,  \* whether MakeChar has run
    form,      \* the request's fields in body order: <<key, value>> pairs
    handled    \* the handler's outcome: "none" (not run), "ok" or "bad request"

vars == <<wire, pc, cur, pend, handed, sinkRes, res, hist, call, owner, overlap, spawned,
          failed, budget, lines, charDef, compiled, form, handled>>

encVars == <<wire, pc, cur, pend, handed, sinkRes, res, hist, call, owner, overlap, spawned,
            failed, budget>>
glyphVars == <<lines, charDef, compiled>>
webVars == <<form, handled>>

----------------------------------------------------------------------------
(* Bounds of the model.                                                    *)

MaxArg == 3         \* argument bytes are drawn from 0..MaxArg and 255-MaxArg..255
MaxRawLen == 2      \* longest byte sequence given to Raw / Write
MaxOps == 2         \* operations invoked in one behaviour of Spec
MaxGlyphK == 2      \* glyph samples: row i holds (i * k) % 32, k in 0..MaxGlyphK

----------------------------------------------------------------------------
(* The command table (lcd.go, const block).                                *)

COMMAND == 254
BACKLIGHT_ON == 66
BACKLIGHT_OFF == 70
BRIGHTNESS == 153
CONTRAST == 145
CLEAR == 88
AUTOSCROLL_ON == 81
AUTOSCROLL_OFF == 82
SET_CURSOR_POSITION == 71
GO_HOME == 72
CURSOR_BACK == 76
CURSOR_FORWARD == 77
UNDERLINE_CURSOR_ON == 74
UNDERLINE_CURSOR_OFF == 75
BLOCK_CURSOR_ON == 83
BLOCK_CURSOR_OFF == 84
SET_RGB_BACKLIGHT_COLOR == 208
SET_LCD_SIZE == 209
CREATE_CUSTOM_CHARACTER == 78

Byte == 0..255

----------------------------------------------------------------------------
(* The encoder.  An operation is modelled by the sequence of Write calls   *)
(* it makes on the sink; each element is the buffer of one call.           *)

Nil == "nil"
Errors == {"EIO", "EPIPE"}

\* Mutants of Raw: a write per byte, the slice written twice, a prefix added.
RawPerByte(bytes) == [i \in 1..Len(bytes) |-> <<bytes[i]>>]
RawTwice(bytes) == <<bytes, bytes>>
RawFramed(bytes) == <<(<<COMMAND>> \o bytes)>>

\* func (l LCD) Raw(bytes ...byte) error { return dropN(l.Write(bytes)) }
Raw(bytes) == <<bytes>>

\* The promoted Write of the embedded io.ReadWriteCloser: the sink's own Write.
Write(bytes) == <<bytes>>

\* Mutant of dropN: the error is swallowed.
dropNSwallow(n, e) == [count |-> {}, err |-> Nil]

\* func dropN(n int, e error) error { return e }
dropN(n, e) == [count |-> {}, err |-> e]

\* Mutant of SetBG: blue and green swapped.
SetBGSwapped(r, g, b) == Raw(<<COMMAND, SET_RGB_BACKLIGHT_COLOR, r, b, g>>)

SetBG(r, g, b) == Raw(<<COMMAND, SET_RGB_BACKLIGHT_COLOR, r, g, b>>)
Off == Raw(<<COMMAND, BACKLIGHT_OFF>>)
On == Raw(<<COMMAND, BACKLIGHT_ON, 0>>)
SetBrightness(b) == Raw(<<COMMAND, BRIGHTNESS, b>>)
SetContrast(c) == Raw(<<COMMAND, CONTRAST, c>>)
SetAutoscroll(a) == Raw(<<COMMAND, a>>)
SetSize(cols, rows) == Raw(<<COMMAND, SET_LCD_SIZE, cols, rows>>)
Clear == Raw(<<COMMAND, CLEAR>>)

\* Mutant of SetCursor: both states packed into one frame.
SetCursorMerged(u, b) == Raw(<<COMMAND, u, b>>)

SetCursor(u, b) == Raw(<<COMMAND, u, COMMAND, b>>)
Home == Raw(<<COMMAND, GO_HOME>>)
MoveTo(col, row) == Raw(<<COMMAND, SET_CURSOR_POSITION, col, row>>)
MoveForward == Raw(<<COMMAND, CURSOR_FORWARD>>)
MoveBack == Raw(<<COMMAND, CURSOR_BACK>>)

\* Mutant of CreateCustomChar: the glyph rows sent bottom row first.
CreateCustomCharReversed(spot, c) ==
    Raw(<<COMMAND, CREATE_CUSTOM_CHARACTER, spot>> \o [i \in 1..8 |-> c[9 - i]])

\* append([]byte{COMMAND, CREATE_CUSTOM_CHARACTER, spot}, c[:]...)
CreateCustomChar(spot, c) == Raw(<<COMMAND, CREATE_CUSTOM_CHARACTER, spot>> \o c)

----------------------------------------------------------------------------
(* Callers and operations.                                                 *)

Callers == {"main", "loop"}

NoOp == [name |-> "none", args |-> <<>>]
NoRes == [count |-> {}, err |-> "pending"]

SeqsUpTo(S, n) == UNION {[1..k -> S] : k \in 0..n}

RECURSIVE Flatten(_)
\* The concatenation of a sequence of sequences.
Flatten(ss) == IF ss = <<>> THEN <<>> ELSE Head(ss) \o Flatten(Tail(ss))

\* Argument bytes tried for single operations: both ends of the byte range.
ArgVals == {b \in Byte : b <= MaxArg \/ b >= 255 - MaxArg}

\* Argument bytes tried in sequences of operations.
SeqVals == {0, COMMAND}

\* Char values tried: row i holds (i * k) % 32.
GlyphSamples == {[i \in 1..8 |-> (i * k) % 32] : k \in 0..MaxGlyphK}

Catalogue(vals1, vals, glyphs, rawlen) ==
    {[name |-> n, args |-> <<>>] :
        n \in {"On", "Off", "Clear", "Home", "MoveForward", "MoveBack"}}
    \cup {[name |-> n, args |-> <<b>>] :
        n \in {"SetBrightness", "SetContrast"}, b \in vals1}
    \cup {[name |-> "SetAutoscroll", args |-> <<a>>] :
        a \in {AUTOSCROLL_ON, AUTOSCROLL_OFF}}
    \cup {[name |-> n, args |-> <<x, y>>] :
        n \in {"SetSize", "MoveTo"}, x \in vals, y \in vals}
    \cup {[name |-> "SetBG", args |-> <<r, g, b>>] :
        r \in vals, g \in vals, b \in vals}
    \cup {[name |-> "SetCursor", args |-> <<u, b>>] :
        u \in {UNDERLINE_CURSOR_ON, UNDERLINE_CURSOR_OFF},
        b \in {BLOCK_CURSOR_ON, BLOCK_CURSOR_OFF}}
    \cup {[name |-> "CreateCustomChar", args |-> <<s>> \o c] :
        s \in vals, c \in glyphs}
    \cup {[name |-> n, args |-> bs] :
        n \in {"Raw", "Write"}, bs \in SeqsUpTo(vals, rawlen)}

\* Single operations: every byte for the one-argument operations, the sampled
\* bytes for the others.
WideOps == Catalogue(Byte, ArgVals, GlyphSamples, MaxRawLen)
SeqOps == Catalogue(SeqVals, SeqVals, {[i \in 1..8 |-> 0]}, 1)

\* func loop(lcd): SetBG(red, 0, 255-red), SetBG(255-green, green, 0),
\* SetBG(0, 255-blue, blue), each for a counter below 255.
LoopOps ==
    {[name |-> "SetBG", args |-> <<red, 0, 255 - red>>] : red \in SeqVals \ {255}}
    \cup {[name |-> "SetBG", args |-> <<255 - green, green, 0>>] : green \in SeqVals \ {255}}
    \cup {[name |-> "SetBG", args |-> <<0, 255 - blue, blue>>] : blue \in SeqVals \ {255}}

OpsOf(p) == IF p = "loop" THEN LoopOps ELSE SeqOps

\* The Write calls operation op makes: the method of that name applied to its arguments.
Calls(op) ==
    LET a == op.args IN
    CASE op.name = "SetBG" -> SetBG(a[1], a[2], a[3])
      [] op.name = "Off" -> Off
      [] op.name = "On" -> On
      [] op.name = "SetBrightness" -> SetBrightness(a[1])
      [] op.name = "SetContrast" -> SetContrast(a[1])
      [] op.name = "SetAutoscroll" -> SetAutoscroll(a[1])
      [] op.name = "SetSize" -> SetSize(a[1], a[2])
      [] op.name = "Clear" -> Clear
      [] op.name = "SetCursor" -> SetCursor(a[1], a[2])
      [] op.name = "Home" -> Home
      [] op.name = "MoveTo" -> MoveTo(a[1], a[2])
      [] op.name = "MoveForward" -> MoveForward
      [] op.name = "MoveBack" -> MoveBack
      [] op.name = "CreateCustomChar" -> CreateCustomChar(a[1], SubSeq(a, 2, 9))
      [] op.name = "Raw" -> Raw(a)
      [] op.name = "Write" -> Write(a)

\* What the operation returns from the sink's (n, err): the encoder methods
\* return dropN(l.Write(bytes)); the promoted Write returns the pair itself.
Result(op, n, e) ==
    IF op.name = "Write" THEN [count |-> {n}, err |-> e] ELSE dropN(n, e)

----------------------------------------------------------------------------
(* Steps of a caller.                                                      *)

\* A caller enters an operation: the byte slice is built from the arguments.
Invoke(p, op) ==
    /\ pc[p] = "idle"
    /\ budget > 0
    /\ p = "loop" => spawned
    /\ pc' = [pc EXCEPT ![p] = "write"]
    /\ cur' = [cur EXCEPT ![p] = op]
    /\ pend' = [pend EXCEPT ![p] = Calls(op)]
    /\ handed' = [handed EXCEPT ![p] = <<>>]
    /\ sinkRes' = [sinkRes EXCEPT ![p] = [n |-> 0, err |-> "pending"]]
    /\ res' = [res EXCEPT ![p] = NoRes]
    /\ hist' = Append(hist, op)
    /\ call' = [call EXCEPT ![p] = Len(hist) + 1]
    /\ overlap' = (overlap \/ \E q \in Callers \ {p} : pc[q] = "write")
    /\ budget' = budget - 1
    /\ UNCHANGED <<wire, owner, spawned, failed, glyphVars, webVars>>

\* The operation's Write call: the sink takes the first n bytes of the buffer
\* and answers (n, e); e is nil only if the whole buffer was taken.  The
\* operation returns after it (or goes on, if it has calls left and no error).
SinkWrite(p, n, e) ==
    /\ pc[p] = "write"
    /\ pend[p] # <<>>
    /\ LET buf == Head(pend[p])
           rest == Tail(pend[p])
       IN /\ n \in 0..Len(buf)
          /\ e = Nil => n = Len(buf)
          /\ wire' = wire \o SubSeq(buf, 1, n)
          /\ owner' = owner \o [i \in 1..n |-> call[p]]
          /\ handed' = [handed EXCEPT ![p] = Append(@, buf)]
          /\ sinkRes' = [sinkRes EXCEPT ![p] = [n |-> n, err |-> e]]
          /\ failed' = (failed \/ e # Nil)
          /\ IF rest = <<>> \/ e # Nil
             THEN /\ pc' = [pc EXCEPT ![p] = "idle"]
                  /\ pend' = [pend EXCEPT ![p] = <<>>]
                  /\ res' = [res EXCEPT ![p] = Result(cur[p], n, e)]
             ELSE /\ pend' = [pend EXCEPT ![p] = rest]
                  /\ UNCHANGED <<pc, res>>
    /\ UNCHANGED <<cur, hist, call, overlap, spawned, budget, glyphVars, webVars>>

\* main: go loop(lcd)
Spawn ==
    /\ pc["main"] = "idle"
    /\ ~spawned
    /\ spawned' = TRUE
    /\ UNCHANGED <<wire, pc, cur, pend, handed, sinkRes, res, hist, call, owner, overlap,
                   failed, budget, glyphVars, webVars>>

InitEnc(b) ==
    /\ wire = <<>>
    /\ pc = [p \in Callers |-> "idle"]
    /\ cur = [p \in Callers |-> NoOp]
    /\ pend = [p \in Callers |-> <<>>]
    /\ handed = [p \in Callers |-> <<>>]
    /\ sinkRes = [p \in Callers |-> [n |-> 0, err |-> "pending"]]
    /\ res = [p \in Callers |-> NoRes]
    /\ hist = <<>>
    /\ call = [p \in Callers |-> 0]
    /\ owner = <<>>
    /\ overlap = FALSE
    /\ spawned = FALSE
    /\ failed = FALSE
    /\ budget = b

InitGlyphIdle ==
    /\ lines = [i \in 1..8 |-> <<>>]
    /\ charDef = [i \in 1..8 |-> 0]
    /\ compiled = FALSE

InitWebIdle ==
    /\ form = <<>>
    /\ handled = "none"

\* No buffer is longer than CreateCustomChar's 11 bytes or the longest Raw.
LongestBuf == IF MaxRawLen > 11 THEN MaxRawLen ELSE 11

\* Sequences of operations by main and, once spawned, by loop beside it; the
\* sink takes a whole buffer or fails before taking any of it.
Init == InitEnc(MaxOps) /\ InitGlyphIdle /\ InitWebIdle

Next ==
    \/ \E p \in Callers : \E op \in OpsOf(p) : Invoke(p, op)
    \/ \E p \in Callers, n \in 0..LongestBuf, e \in {Nil, "EIO"} :
          (e # Nil => n = 0) /\ SinkWrite(p, n, e)
    \/ Spawn

Spec == Init /\ [][Next]_vars

\* One operation by main, arguments from the wide sample, every sink outcome.
InitOp == InitEnc(1) /\ InitGlyphIdle /\ InitWebIdle

NextOp ==
    \/ \E op \in WideOps : Invoke("main", op)
    \/ \E n \in 0..LongestBuf, e \in Errors \cup {Nil} : SinkWrite("main", n, e)

SpecOp == InitOp /\ [][NextOp]_vars

----------------------------------------------------------------------------
(* Properties of the encoder.                                              *)

\* The wire bytes of the device's command table, written out in numbers.
TableBytes(op) ==
    LET a == op.args IN
    CASE op.name = "On" -> <<254, 66, 0>>
      [] op.name = "Off" -> <<254, 70>>
      [] op.name = "SetBrightness" -> <<254, 153, a[1]>>
      [] op.name = "SetContrast" -> <<254, 145, a[1]>>
      [] op.name = "SetAutoscroll" -> <<254, a[1]>>
      [] op.name = "SetSize" -> <<254, 209, a[1], a[2]>>
      [] op.name = "Clear" -> <<254, 88>>
      [] op.name = "Home" -> <<254, 72>>
      [] op.name = "MoveTo" -> <<254, 71, a[1], a[2]>>
      [] op.name = "MoveForward" -> <<254, 77>>
      [] op.name = "MoveBack" -> <<254, 76>>
      [] op.name = "SetBG" -> <<254, 208, a[1], a[2], a[3]>>
      [] op.name = "SetCursor" -> <<254, a[1], 254, a[2]>>
      [] op.name = "CreateCustomChar" ->
            <<254, 78, a[1], a[2], a[3], a[4], a[5], a[6], a[7], a[8], a[9]>>
      [] op.name \in {"Raw", "Write"} -> a

SingleFrameOps ==
    {"On", "Off", "SetBrightness", "SetContrast", "SetAutoscroll", "SetSize", "Clear",
     "Home", "MoveTo", "MoveForward", "MoveBack", "SetBG"}

\* Caller p has returned from an operation.
Returned(p) == pc[p] = "idle" /\ cur[p].name # "none"

\* C1: every single-frame operation hands the sink exactly the bytes of the
\* command table: 0xFE, the opcode, then the arguments in table order.
C1_FrameTable ==
    \A p \in Callers :
        (Returned(p) /\ cur[p].name \in SingleFrameOps)
            => /\ handed[p] = <<TableBytes(cur[p])>>
               /\ cur[p].name = "SetAutoscroll" => cur[p].args[1] \in {81, 82}

\* SetBG(0xFE, 0, 0xFF) has handed the sink [0xFE, 0xD0, 0xFE, 0x00, 0xFF].
C1_Witness ==
    /\ Returned("main")
    /\ cur["main"] = [name |-> "SetBG", args |-> <<254, 0, 255>>]
    /\ handed["main"] = << <<254, 208, 254, 0, 255>> >>

CreatedZeroGlyphInSlot0 ==
    /\ Returned("main")
    /\ cur["main"] = [name |-> "CreateCustomChar", args |-> <<0, 0, 0, 0, 0, 0, 0, 0, 0>>]

\* C3 as amended: CreateCustomChar(slot, glyph) hands the sink 0xFE, 0x4E, the
\* slot, then the 8 glyph bytes in row order and nothing else; for slot 0 and
\* the all-zero glyph that is [0xFE,0x4E,0,0,0,0,0,0,0,0,0], 11 bytes in total.
C3_CustomCharFrame ==
    /\ \A p \in Callers :
          (Returned(p) /\ cur[p].name = "CreateCustomChar")
              => /\ handed[p] = <<TableBytes(cur[p])>>
                 /\ \A i \in 1..8 : handed[p][1][3 + i] = cur[p].args[1 + i]
    /\ CreatedZeroGlyphInSlot0
          => /\ handed["main"] = << <<254, 78, 0, 0, 0, 0, 0, 0, 0, 0, 0>> >>
             /\ Len(handed["main"][1]) = 11

\* C3 as stated: the frame for slot 0 and the all-zero glyph is 10 bytes in total.
C3_Original ==
    CreatedZeroGlyphInSlot0
        => /\ handed["main"] = << <<254, 78, 0, 0, 0, 0, 0, 0, 0, 0, 0>> >>
           /\ Len(handed["main"][1]) = 10

\* CreateCustomChar(255, rows 1..8) has handed the sink the rows in order.
C3_Witness ==
    /\ Returned("main")
    /\ cur["main"] = [name |-> "CreateCustomChar", args |-> <<255, 1, 2, 3, 4, 5, 6, 7, 8>>]
    /\ handed["main"] = << <<254, 78, 255, 1, 2, 3, 4, 5, 6, 7, 8>> >>

\* C4: SetCursor(u, b) emits exactly [0xFE, u, 0xFE, b]: two frames, underline
\* first, block second, each with its own prefix.
C4_SetCursorTwoFrames ==
    \A p \in Callers :
        (Returned(p) /\ cur[p].name = "SetCursor")
            => /\ cur[p].args[1] \in {74, 75}
               /\ cur[p].args[2] \in {83, 84}
               /\ handed[p] = << <<254, cur[p].args[1], 254, cur[p].args[2]>> >>

\* SetCursor(UNDERLINE_CURSOR_OFF, BLOCK_CURSOR_OFF) has emitted [0xFE,0x4B,0xFE,0x54].
C4_Witness ==
    /\ Returned("main")
    /\ cur["main"] = [name |-> "SetCursor", args |-> <<75, 84>>]
    /\ handed["main"] = << <<254, 75, 254, 84>> >>
    /\ wire = <<254, 75, 254, 84>>

\* C5: every encoder operation calls the sink's Write exactly once, with its
\* whole byte sequence, and returns the sink's error unchanged and nothing
\* else: nil on success, the same failure on failure, no second Write after a
\* failure, no count of accepted bytes.
C5_OneWriteSameError ==
    \A p \in Callers :
        /\ Len(handed[p]) <= 1
        /\ (Returned(p) /\ cur[p].name # "Write")
              => /\ handed[p] = <<TableBytes(cur[p])>>
                 /\ res[p].err = sinkRes[p].err
                 /\ res[p].err \in Errors \cup {Nil}
                 /\ res[p].count = {}

\* SetBG failed with EPIPE after the sink took 2 of its 5 bytes.
C5_Witness ==
    /\ Returned("main")
    /\ cur["main"].name = "SetBG"
    /\ sinkRes["main"] = [n |-> 2, err |-> "EPIPE"]
    /\ res["main"] = [count |-> {}, err |-> "EPIPE"]
    /\ Len(handed["main"]) = 1
    /\ Len(wire) = 2

\* C8: Raw(bytes) and the handle's own Write hand the sink exactly the given
\* bytes, in order, with no prefix or other framing byte added.
C8_RawVerbatim ==
    \A p \in Callers :
        (Returned(p) /\ cur[p].name \in {"Raw", "Write"})
            => /\ handed[p] = <<cur[p].args>>
               /\ sinkRes[p].err = Nil => wire = cur[p].args

\* Raw(0x00, 0xFE) has put exactly those two bytes on the wire.
C8_Witness ==
    /\ Returned("main")
    /\ cur["main"] = [name |-> "Raw", args |-> <<0, 254>>]
    /\ res["main"].err = Nil
    /\ wire = <<0, 254>>

AllIdle == \A p \in Callers : pc[p] = "idle"

\* C6: after operations issued one after another whose writes all succeeded,
\* the sink has received the concatenation, in call order, of each
\* operation's own encoding.
C6_SequentialConcat ==
    (~overlap /\ ~failed /\ AllIdle)
        => wire = Flatten([i \in 1..Len(hist) |-> TableBytes(hist[i])])

\* main's Clear() then On(): the wire holds both frames in that order.
C6_Witness ==
    /\ ~overlap /\ ~failed /\ AllIdle
    /\ hist = <<[name |-> "Clear", args |-> <<>>], [name |-> "On", args |-> <<>>]>>
    /\ wire = <<254, 88, 254, 66, 0>>

\* Some byte of one operation lies between two bytes of another operation.
Interleaved ==
    \E i, j, k \in 1..Len(owner) :
        i < j /\ j < k /\ owner[i] = owner[k] /\ owner[i] # owner[j]

\* Both callers have returned from operations that ran at the same time.
ConcurrentDone == overlap /\ AllIdle /\ Returned("main") /\ Returned("loop")

\* C7 as amended: with a sink that appends the bytes of each Write call
\* contiguously, concurrent operations interleave only as whole byte
\* sequences: no byte of one operation ever lies between bytes of another.
C7_NoSplitFrame == ~Interleaved

\* C7 as stated: operations invoked concurrently leave a wire in which bytes
\* of one lie between the bytes of the other.
C7_Original == (ConcurrentDone /\ ~failed) => Interleaved

\* loop's SetBG was invoked while main was inside MoveTo and was served first:
\* the two frames are on the wire whole, in the order of their Writes.
C7_Witness ==
    /\ ConcurrentDone /\ ~failed
    /\ hist[1].name = "MoveTo" /\ hist[2].name = "SetBG"
    /\ owner = <<2, 2, 2, 2, 2, 1, 1, 1, 1>>

----------------------------------------------------------------------------
(* The glyph compiler.                                                     *)

MaxRowLen == 9      \* longest row given to MakeChar

\* Characters a row is made of: the two "off" markers and an "on" marker.
Chars == {".", " ", "*"}

\* Mutant of Lit: only the period is an "off" marker.
LitNotPeriod(c) == c # "."

\* c != '.' && c != ' '
Lit(c) == c # "." /\ c # " "

\* Mutant of ShiftIn: the accumulator is wider than a byte.
ShiftInWide(pixels, c) == pixels * 2 + (IF Lit(c) THEN 1 ELSE 0)

\* pixels = pixels << 1; if lit { pixels |= 1 }   (pixels is a byte)
ShiftIn(pixels, c) ==
    LET shifted == (pixels * 2) % 256
    IN IF Lit(c) /\ shifted % 2 = 0 THEN shifted + 1 ELSE shifted

\* for _, c := range line { ... }
RECURSIVE ScanRow(_, _)
ScanRow(pixels, line) ==
    IF line = <<>> THEN pixels ELSE ScanRow(ShiftIn(pixels, Head(line)), Tail(line))

\* func MakeChar(lines [8]string) Char
MakeChar(ls) == [i \in 1..8 |-> ScanRow(0, ls[i])]

\* The example of MakeChar's documentation.
Heart ==
    << <<".", ".", ".", ".", ".">>,
       <<".", "*", ".", "*", ".">>,
       <<"*", ".", "*", ".", "*">>,
       <<"*", ".", ".", ".", "*">>,
       <<"*", ".", ".", ".", "*">>,
       <<".", "*", ".", "*", ".">>,
       <<".", ".", "*", ".", ".">>,
       <<".", ".", ".", ".", ".">> >>

\* Rows tried: every row of up to 5 characters, and every longer row made of
\* periods and stars.
Rows == SeqsUpTo(Chars, 5) \cup SeqsUpTo({".", "*"}, MaxRowLen)
Fillers == {<<".", ".", ".", ".", ".">>, <<"*", "*", "*", "*", "*">>}

\* Inputs tried: the heart, and every row at every position among filler rows.
Patterns ==
    {Heart} \cup
    {[j \in 1..8 |-> IF j = i THEN r ELSE f] : r \in Rows, i \in 1..8, f \in Fillers}

InitGlyph ==
    /\ InitEnc(0)
    /\ InitWebIdle
    /\ lines \in Patterns
    /\ charDef = [i \in 1..8 |-> 0]
    /\ compiled = FALSE

Compile ==
    /\ ~compiled
    /\ charDef' = MakeChar(lines)
    /\ compiled' = TRUE
    /\ UNCHANGED <<lines, encVars, webVars>>

NextGlyph == Compile

SpecGlyph == InitGlyph /\ [][NextGlyph]_vars

----------------------------------------------------------------------------
(* Properties of the glyph compiler.                                       *)

\* Bit k (0 = lowest) of byte x.
BitOf(x, k) == (x \div (2 ^ k)) % 2

FiveWide == \A i \in 1..8 : Len(lines[i]) = 5

\* C2: on 8 rows of exactly 5 characters, output byte i is the 5-bit number
\* of row i read left to right (leftmost = bit 4, on iff neither space nor
\* period): at most 0x1F, rows in order, all-off gives 0, all-on gives 0x1F.
C2_FiveBitRows ==
    (compiled /\ FiveWide)
        => \A i \in 1..8 :
              /\ charDef[i] \in 0..31
              /\ \A k \in 0..4 :
                    BitOf(charDef[i], k) = 1 <=> lines[i][5 - k] \notin {" ", "."}
              /\ (\A j \in 1..5 : lines[i][j] \in {" ", "."}) => charDef[i] = 0
              /\ (\A j \in 1..5 : lines[i][j] \notin {" ", "."}) => charDef[i] = 31

\* The documented heart compiles to rows 0, 10, 21, 17, 17, 10, 4, 0.
C2_Witness ==
    /\ compiled
    /\ lines = Heart
    /\ charDef = <<0, 10, 21, 17, 17, 10, 4, 0>>

\* C9 as amended: a row of any length is accepted and packed by shift-and-set
\* into one byte whose bit k is the k-th character from the END of the row:
\* of a row longer than 8 only the last 8 characters remain, and a row
\* shorter than 5 fills the LOW bits, leaving the bits above its length zero.
C9_RowsRightAligned ==
    compiled
        => \A i \in 1..8 :
              /\ charDef[i] \in 0..255
              /\ \A k \in 0..7 :
                    BitOf(charDef[i], k) = 1
                        <=> (k < Len(lines[i]) /\ lines[i][Len(lines[i]) - k] \notin {" ", "."})

\* C9 as stated: the characters missing from a row shorter than 5 leave the
\* low bits of the row byte zero.
C9_Original ==
    compiled
        => \A i \in 1..8 :
              Len(lines[i]) < 5
                  => \A k \in 0..(4 - Len(lines[i])) : BitOf(charDef[i], k) = 0

\* A 9-character row whose only "on" character is the first compiles to 0:
\* the bit was shifted out of the byte.
C9_Witness ==
    /\ compiled
    /\ lines[3] = <<"*", ".", ".", ".", ".", ".", ".", ".", ".">>
    /\ charDef[3] = 0

\* A one-character "on" row compiles to 1: the character sits in bit 0.
C9_ShortRowWitness ==
    /\ compiled
    /\ lines[8] = <<"*">>
    /\ charDef[8] = 1

----------------------------------------------------------------------------
(* The HTTP set handler (lcd_web, server.Set) and its helpers.             *)

MaxFields == 5      \* most fields in one request

\* Field values are sequences of characters.
T255 == <<"2", "5", "5">>
T256 == <<"2", "5", "6">>
T07 == <<"0", "7">>
TX == <<"x">>
TRed == <<"#", "f", "0", "0">>
TTrue == <<"t", "r", "u", "e">>
TFalse == <<"f", "a", "l", "s", "e">>
THi == <<"H", "i">>

\* Fields tried.  "%" stands for a field with a broken percent escape, and
\* "on" for a field this handler does not know.
Pairs ==
    {<<"brightness", T255>>, <<"brightness", TX>>,
     <<"contrast", T07>>, <<"contrast", T256>>,
     <<"background", TRed>>,
     <<"autoscroll", TTrue>>, <<"autoscroll", TFalse>>,
     <<"txt", THi>>,
     <<"on", TTrue>>,
     <<"%", <<>>>>}

\* r.ParseForm() fails on a broken escape.
ParseFormFails(body) == \E i \in 1..Len(body) : body[i][1] = "%"

RECURSIVE ValuesOf(_, _)
\* r.Form[key]: the values of the fields named key, in body order.
ValuesOf(body, key) ==
    IF body = <<>> THEN <<>>
    ELSE (IF Head(body)[1] = key THEN <<Head(body)[2]>> ELSE <<>>)
            \o ValuesOf(Tail(body), key)

\* Mutant of getText: the first value of a repeated field is taken.
getTextFirst(key, body) ==
    LET val == ValuesOf(body, key)
    IN IF Len(val) >= 1 THEN [ok |-> TRUE, txt |-> val[1]] ELSE [ok |-> FALSE, txt |-> <<>>]

\* func getText(key string, vals url.Values) (string, bool)
getText(key, body) ==
    LET val == ValuesOf(body, key)
    IN IF Len(val) = 1 THEN [ok |-> TRUE, txt |-> val[1]] ELSE [ok |-> FALSE, txt |-> <<>>]

Digits == <<"0", "1", "2", "3", "4", "5", "6", "7", "8", "9">>
IsDigit(c) == \E d \in 1..10 : Digits[d] = c
DigitVal(c) == (CHOOSE d \in 1..10 : Digits[d] = c) - 1

RECURSIVE ParseDigits(_, _)
\* The digit loop of strconv.ParseUint(txt, 10, 8): -1 for a syntax or range error.
ParseDigits(acc, txt) ==
    IF txt = <<>> THEN acc
    ELSE IF ~IsDigit(Head(txt)) THEN -1
    ELSE LET n == acc * 10 + DigitVal(Head(txt))
         IN IF n > 255 THEN -1 ELSE ParseDigits(n, Tail(txt))

\* strconv.ParseUint(txt, 10, 8): the empty string is a syntax error.
ParseUint(txt) == IF txt = <<>> THEN -1 ELSE ParseDigits(0, txt)

\* func getByte(key string, vals url.Values) (byte, bool)
getByte(key, body) ==
    LET t == getText(key, body)
        num == ParseUint(t.txt)
    IN IF t.ok /\ num >= 0 THEN [ok |-> TRUE, b |-> num] ELSE [ok |-> FALSE, b |-> 0]

\* func getRGB(vals url.Values): the colour is whatever hexcolor.HexToRGBA
\* (a library outside the repository) makes of the text.
getRGB(body, rgb) ==
    LET t == getText("background", body)
    IN IF t.ok THEN [ok |-> TRUE, rgb |-> rgb] ELSE [ok |-> FALSE, rgb |-> <<0, 0, 0>>]

\* []byte(s) for the characters of the texts tried.
ByteOf(c) == CASE c = "H" -> 72 [] c = "i" -> 105

\* The encoder calls of server.Set, in the order it makes them.
SetCalls(body, rgb) ==
    LET b == getByte("brightness", body)
        c == getByte("contrast", body)
        g == getRGB(body, rgb)
        a == getText("autoscroll", body)
        vals == ValuesOf(body, "txt")
    IN (IF b.ok THEN <<[name |-> "SetBrightness", args |-> <<b.b>>]>> ELSE <<>>)
       \o (IF c.ok THEN <<[name |-> "SetContrast", args |-> <<c.b>>]>> ELSE <<>>)
       \o (IF g.ok THEN <<[name |-> "SetBG", args |-> g.rgb]>> ELSE <<>>)
       \o (IF a.ok
           THEN <<[name |-> "SetAutoscroll",
                   args |-> <<IF a.txt = TTrue THEN AUTOSCROLL_ON ELSE AUTOSCROLL_OFF>>]>>
           ELSE <<>>)
       \o (IF Len(vals) = 1
           THEN <<[name |-> "Clear", args |-> <<>>],
                  [name |-> "Home", args |-> <<>>],
                  [name |-> "Write", args |-> [i \in 1..Len(vals[1]) |-> ByteOf(vals[1][i])]]>>
           ELSE <<>>)

\* Colours hexcolor.HexToRGBA may answer.
Colours == {<<255, 0, 0>>, <<0, 0, 0>>}

\* func (s *server) Set(w, r): the whole handler.  It ignores what the
\* encoder calls return; the sink takes every buffer.
Set(rgb) ==
    /\ handled = "none"
    /\ IF ParseFormFails(form)
       THEN /\ handled' = "bad request"
            /\ UNCHANGED <<hist, wire>>
       ELSE LET calls == SetCalls(form, rgb)
            IN /\ handled' = "ok"
               /\ hist' = calls
               /\ wire' = Flatten([i \in 1..Len(calls) |-> Flatten(Calls(calls[i]))])
    /\ UNCHANGED <<form, pc, cur, pend, handed, sinkRes, res, call, owner, overlap,
                   spawned, failed, budget, glyphVars>>

InitWeb ==
    /\ InitEnc(0)
    /\ InitGlyphIdle
    /\ form \in SeqsUpTo(Pairs, MaxFields)
    /\ handled = "none"

NextWeb == \E rgb \in Colours : Set(rgb)

SpecWeb == InitWeb /\ [][NextWeb]_vars

----------------------------------------------------------------------------
(* Properties of the set handler.                                          *)

\* The request names field k exactly once.
Once(k) == Cardinality({i \in 1..Len(form) : form[i][1] = k}) = 1

\* The value of the field named k.
TheValue(k) == form[CHOOSE i \in 1..Len(form) : form[i][1] = k][2]

RECURSIVE DecimalValue(_)
\* The number a string of digits denotes, read from its last digit.
DecimalValue(v) ==
    IF v = <<>> THEN 0
    ELSE DecimalValue(SubSeq(v, 1, Len(v) - 1)) * 10
            + (CHOOSE d \in 0..9 : Digits[d + 1] = v[Len(v)])

\* v is a decimal number in 0..255.
IsDecimalByte(v) ==
    /\ Len(v) >= 1
    /\ \A i \in 1..Len(v) : v[i] \in {"0", "1", "2", "3", "4", "5", "6", "7", "8", "9"}
    /\ DecimalValue(v) <= 255

\* The names of the calls the fields of the request stand for, in the fixed
\* order, with textCalls for a text field.
NamesFor(textCalls) ==
    (IF Once("brightness") /\ IsDecimalByte(TheValue("brightness"))
     THEN <<"SetBrightness">> ELSE <<>>)
    \o (IF Once("contrast") /\ IsDecimalByte(TheValue("contrast"))
        THEN <<"SetContrast">> ELSE <<>>)
    \o (IF Once("background") THEN <<"SetBG">> ELSE <<>>)
    \o (IF Once("autoscroll") THEN <<"SetAutoscroll">> ELSE <<>>)
    \o (IF Once("txt") THEN textCalls ELSE <<>>)

\* Every call carries the value of its field.
ArgsFromFields ==
    \A i \in 1..Len(hist) :
        /\ hist[i].name = "SetBrightness"
              => hist[i].args = <<DecimalValue(TheValue("brightness"))>>
        /\ hist[i].name = "SetContrast"
              => hist[i].args = <<DecimalValue(TheValue("contrast"))>>
        /\ hist[i].name = "SetAutoscroll"
              => hist[i].args = <<IF TheValue("autoscroll") = TTrue THEN 81 ELSE 82>>
        /\ hist[i].name = "Write"
              => Len(hist[i].args) = Len(TheValue("txt"))

\* C10 as amended: the handler applies the fields of one request in the fixed
\* order brightness, contrast, background, autoscroll, text, whatever their
\* order in the request; brightness, contrast, background and autoscroll are
\* one encoder call each, the text is three calls (Clear, Home, then one
\* write of the text); a field that is absent, repeated, or (brightness,
\* contrast) not a decimal number in 0..255 causes no call, and a request
\* that does not parse causes none at all.
C10_FixedOrderThreeCallText ==
    /\ handled = "bad request" => hist = <<>>
    /\ handled = "ok"
          => /\ [i \in 1..Len(hist) |-> hist[i].name] = NamesFor(<<"Clear", "Home", "Write">>)
             /\ ArgsFromFields

\* C10 as stated: the text field is a clear and a write, every other field
\* one call.
C10_Original ==
    handled = "ok"
        => [i \in 1..Len(hist) |-> hist[i].name] = NamesFor(<<"Clear", "Write">>)

\* All five fields, sent in the reverse of the order they are applied in.
C10_Witness ==
    /\ handled = "ok"
    /\ form = << <<"txt", THi>>, <<"autoscroll", TFalse>>, <<"background", TRed>>,
                 <<"contrast", T07>>, <<"brightness", T255>> >>
    /\ hist[1] = [name |-> "SetBrightness", args |-> <<255>>]
    /\ hist[2] = [name |-> "SetContrast", args |-> <<7>>]
    /\ hist[3] = [name |-> "SetBG", args |-> <<255, 0, 0>>]
    /\ hist[4] = [name |-> "SetAutoscroll", args |-> <<82>>]
    /\ wire = <<254, 153, 255, 254, 145, 7, 254, 208, 255, 0, 0, 254, 82,
                254, 88, 254, 72, 72, 105>>

\* A repeated brightness field and an out-of-range contrast: no call at all.
C10_NoCallWitness ==
    /\ handled = "ok"
    /\ form = << <<"brightness", T255>>, <<"contrast", T256>>, <<"brightness", T255>> >>
    /\ hist = <<>>

====
